---- MODULE Spec2Model ----
(***************************************************************************)
(* The turn-by-turn interview core of expertbridge-interviewer:            *)
(*   src/src/core/brain.py         Brain (dialogue state machine and the   *)
(*                                 model fallback loop)                    *)
(*   src/src/core/orchestrator.py  Orchestrator (per-turn pipeline)        *)
(*   src/src/core/listener.py      Listener (speech-to-text adapter)       *)
(*   src/src/core/speaker.py       Speaker (text-to-speech adapter)        *)
(*                                                                         *)
(* Texts are sequences of words; Lower models str.lower() on the words     *)
(* that occur, and Contains models the `in` substring test at word         *)
(* granularity.  Python's None is <<>> for texts and error strings (both   *)
(* are falsy, as the code tests them) and NoTime for start_time.           *)
(***************************************************************************)
EXTENDS Integers, Sequences, FiniteSets, TLC

VARIABLES
    \* the wall clock read by time.time()
    now,
    \* Orchestrator fields (orchestrator.py:11-23)
    transcript, scores, phase, start_time, final_score, last_error,
    \* Brain fields (brain.py:13-48)
    conversation_history, interview_phase, strike_count, question_count,
    brain_last_error, job_context, deployment_name, provider,
    interview_strategy,
    \* what the last operation did and returned
    lastOp, turn_result, brain_result, request, invocation,
    \* what the last run_interview_turn call was given: the audio, and how the
    \* services it called answered
    turn_inputs,
    \* the handle_user_input calls made so far, and which of them was the first
    \* to return terminate = true (0: none yet)
    handled, first_terminate,
    \* the topic directives of the generation requests that were answered
    asked,
    \* counters that bound the exploration
    turns, faults,
    \* the fallback loop of generate_spoken_response, one candidate at a time
    pc, check_models, idx, response, error_log, calls, model_to_use,
    \* how the service answered the candidate tried last, and how the
    \* invocation before this one ended
    behaviour, previous_invocation

brainVars == <<conversation_history, interview_phase, strike_count,
               question_count, brain_last_error, job_context>>
cfgVars == <<deployment_name, provider, interview_strategy>>
orchVars == <<transcript, scores, phase, start_time, final_score, last_error>>
obsVars == <<lastOp, turn_result, brain_result, request, invocation, asked,
             turn_inputs, handled, first_terminate>>
boundVars == <<turns, faults>>
loopVars == <<pc, check_models, idx, response, error_log, calls, model_to_use,
              behaviour, previous_invocation>>
vars == <<now, orchVars, brainVars, cfgVars, obsVars, boundVars, loopVars>>

-----------------------------------------------------------------------------
(* Bounds of the exploration *)

\* Spec explores short sessions with many departures from the nominal turn
\* (a clock jump, a restart, an abusive or silent candidate, a collaborator
\* that fails); SpecInterview explores whole interviews with few of them.
\* run_interview_turn calls in one behaviour of Spec
MaxTurns == 4
\* departures in one behaviour of Spec
MaxFaults == 2
\* run_interview_turn calls in one behaviour of SpecInterview
InterviewTurns == 9
\* departures in one behaviour of SpecInterview
InterviewFaults == 1

-----------------------------------------------------------------------------
(* Program constants *)

\* time.time() when the orchestrator is constructed: any positive number
Epoch == 5000
\* self.start_time = None
NoTime == 0
\* if elapsed_time > 890
HardTimeLimit == 890
\* if self.question_count >= 8
CurriculumLength == 8
\* if elapsed_time > 780 / elif elapsed_time > 600
FinalQuestionTime == 780
ConcludeTime == 600
\* _get_empty_analysis
DefaultOverall == 60
DefaultSubscore == 3

-----------------------------------------------------------------------------
(* Texts *)

\* str.lower() on one word
Lower(w) ==
    CASE w = "Stupid" -> "stupid"
      [] w = "SHUT" -> "shut"
      [] w = "UP" -> "up"
      [] w = "Thank" -> "thank"
      [] w = "Goodbye" -> "goodbye"
      [] w = "Unsupported" -> "unsupported"
      [] w = "Parameter" -> "parameter"
      [] OTHER -> w

LowerText(t) == [i \in 1..Len(t) |-> Lower(t[i])]

\* `phrase in text`
Contains(t, phrase) ==
    \E i \in 1..(Len(t) - Len(phrase) + 1) :
        SubSeq(t, i, i + Len(phrase) - 1) = phrase

\* what the candidate can say
CleanText == <<"we", "shipped", "the", "pipeline">>
AbusiveText == <<"you", "are", "a", "Stupid", "idiot">>
ShoutedText == <<"just", "SHUT", "UP">>
UserTexts == {CleanText, AbusiveText, ShoutedText}

\* what the generation service can answer
QuestionText == <<"Great", "insight", "what", "was", "the", "trade", "off">>
FarewellText == <<"Thank", "you", "for", "your", "time", "Goodbye">>
HearBackText == <<"you", "will", "hear", "back", "from", "us">>
GeneratedTexts == {QuestionText, FarewellText, HearBackText}

\* the fixed messages of brain.py and orchestrator.py
WarningMessage ==
    <<"please", "refrain", "this", "is", "your", "first", "warning">>
ConductMessage ==
    <<"ending", "this", "interview", "unprofessional", "behavior", "Thank", "you">>
TimeLimitMessage ==
    <<"reached", "our", "time", "limit", "Thank", "you", "hear", "back", "soon">>
ApologyMessage ==
    <<"I", "apologize", "technical", "issue", "please", "repeat", "that">>
FallbackClosingMessage ==
    <<"Thank", "you", "this", "concludes", "our", "interview", "Goodbye">>
DidntCatchMessage == <<"I", "didn't", "catch", "that", "could", "you", "repeat">>
TroubleHearingMessage == <<"trouble", "hearing", "you", "please", "try", "again">>
TechnicalIssueMessage == <<"technical", "issue", "check", "the", "System", "Logs">>

-----------------------------------------------------------------------------
(* The text-generation service, as the fallback loop sees it *)

\* a call returns a response or raises an error with a text
Returns == [ok |-> TRUE, err |-> <<>>]
Raises(e) == [ok |-> FALSE, err |-> e]

ErrUnsupported == <<"Unsupported", "value", "temperature">>
ErrParameter == <<"Unknown", "Parameter", "in", "request">>
ErrMaxTokens == <<"max_tokens", "is", "not", "accepted">>
ErrNotFound == <<"404", "DeploymentNotFound">>
ErrRateLimit == <<"429", "rate", "limit">>

\* how one deployment answers the standard call and the reduced call
Behaviour(std, reduced) == [std |-> std, reduced |-> reduced]
BehOk == Behaviour(Returns, Returns)
BehNotFound == Behaviour(Raises(ErrNotFound), Returns)
BehReasoning == Behaviour(Raises(ErrUnsupported), Returns)
BehReasoningP == Behaviour(Raises(ErrParameter), Returns)
BehReasoningM == Behaviour(Raises(ErrMaxTokens), Returns)
BehBroken == Behaviour(Raises(ErrMaxTokens), Raises(ErrRateLimit))
Behaviours ==
    {BehOk, BehNotFound, BehReasoning, BehReasoningP, BehReasoningM, BehBroken}

\* brain.py:155-164
fallback_models ==
    << "gpt4-extract-updated", "gpt4-extract-1", "gpt-4o-mini-query-generation",
       "gpt5-mini-core", "gpt-4o", "gpt-4o-mini", "gpt-4", "gpt-35-turbo" >>

CustomDeployment == "my-custom-deployment"
ModelNames == {fallback_models[i] : i \in 1..Len(fallback_models)} \cup {CustomDeployment}

\* brain.py:149-151
ModelToUse(prov, dep) == IF prov = "openai" THEN "gpt-4o-mini" ELSE dep

\* CheckModels without the `if m != model_to_use` filter
CheckModelsNoDedup(prov, dep) ==
    <<IF prov = "openai" THEN "gpt-4o-mini" ELSE dep>> \o fallback_models

\* brain.py:169
CheckModels(prov, dep) ==
    <<ModelToUse(prov, dep)>> \o
        SelectSeq(fallback_models, LAMBDA m : m # ModelToUse(prov, dep))

\* IsParamShapeError taking every error for a rejected parameter
IsParamShapeErrorAlways(e) == TRUE

\* brain.py:186-187
IsParamShapeError(e) ==
    \/ Contains(LowerText(e), <<"unsupported">>)
    \/ Contains(LowerText(e), <<"parameter">>)
    \/ Contains(LowerText(e), <<"max_tokens">>)

NoResponse == [present |-> FALSE]
Response(m, text) == [present |-> TRUE, model |-> m, content |-> text]
Call(m, shape) == [model |-> m, shape |-> shape]
\* LogEntry without the candidate's name
LogEntryAnonymous(m, e) == e

\* f"{model_candidate}: {str(e)}"
LogEntry(m, e) == <<m, ":">> \o e

\* brain.py:175-212, the body of the loop for one candidate: the response it
\* leaves, the service calls it makes, and what it appends to error_log
TryCandidate(m, beh, text) ==
    IF beh.std.ok
    THEN [response |-> Response(m, text),
          calls |-> <<Call(m, "standard")>>, logged |-> <<>>]
    ELSE IF IsParamShapeError(beh.std.err)
    THEN IF beh.reduced.ok
         THEN [response |-> Response(m, text),
               calls |-> <<Call(m, "standard"), Call(m, "reduced")>>,
               logged |-> <<>>]
         ELSE [response |-> NoResponse,
               calls |-> <<Call(m, "standard"), Call(m, "reduced")>>,
               logged |-> <<LogEntry(m, beh.reduced.err)>>]
    ELSE [response |-> NoResponse,
          calls |-> <<Call(m, "standard")>>,
          logged |-> <<LogEntry(m, beh.std.err)>>]

\* LoopEnds without the break
LoopNeverEnds(resp) == FALSE

\* brain.py:206-208: a response ends the loop
LoopEnds(resp) == resp.present

\* brain.py:171-212, the loop from candidate i on; r is what candidate i did
RECURSIVE RunCandidates(_, _, _, _, _, _)
AfterCandidate(models, svc, text, i, log, made, r) ==
    IF LoopEnds(r.response)
    THEN [response |-> r.response, winner |-> models[i],
          error_log |-> log \o r.logged, calls |-> made \o r.calls]
    ELSE RunCandidates(models, svc, text, i + 1, log \o r.logged, made \o r.calls)

RunCandidates(models, svc, text, i, log, made) ==
    IF i > Len(models)
    THEN [response |-> NoResponse, winner |-> models[1],
          error_log |-> log, calls |-> made]
    ELSE AfterCandidate(models, svc, text, i, log, made,
                        TryCandidate(models[i], svc[models[i]], text))

Invoke(prov, dep, svc, text) ==
    RunCandidates(CheckModels(prov, dep), svc, text, 1, <<>>, <<>>)

\* sequence of texts, joined
RECURSIVE Join(_)
Join(ss) == IF ss = <<>> THEN <<>> ELSE Head(ss) \o Join(Tail(ss))

\* brain.py:226: the text of the exception raised when no candidate answered
AllFailedError(log) == <<"All", "models", "failed.", "Details:">> \o Join(log)

\* the service behaviours a turn is explored with
SvcAllOk == [m \in ModelNames |-> BehOk]
SvcDown == [m \in ModelNames |-> IF m = "gpt-4o" THEN BehBroken ELSE BehNotFound]
SvcFallback ==
    [m \in ModelNames |->
        IF m = "gpt4-extract-updated" THEN BehReasoning
        ELSE IF m = "gpt4-extract-1" THEN BehOk
        ELSE BehNotFound]
ServiceBehaviours == {SvcAllOk, SvcDown, SvcFallback}

-----------------------------------------------------------------------------
(* Brain (brain.py) *)

Message(role, content) == [role |-> role, content |-> content]

\* Instruction read with a one-based index
InstructionOneBased(n) ==
    CASE n = 0 -> <<"[CRITICAL INSTRUCTION FOR NEXT QUESTION]", "TOPIC 1", "Question 2 (Deep Dive)">>
      [] n = 1 -> <<"[CRITICAL INSTRUCTION FOR NEXT QUESTION]", "TOPIC 2", "Question 1 (Overview)">>
      [] n = 2 -> <<"[CRITICAL INSTRUCTION FOR NEXT QUESTION]", "TOPIC 2", "Question 2 (Technical Dive)">>
      [] n = 3 -> <<"[CRITICAL INSTRUCTION FOR NEXT QUESTION]", "TOPIC 3", "Question 1 (Overview)">>
      [] n = 4 -> <<"[CRITICAL INSTRUCTION FOR NEXT QUESTION]", "TOPIC 3", "Question 2 (Trade-offs/Challenges)">>
      [] n = 5 -> <<"[CRITICAL INSTRUCTION FOR NEXT QUESTION]", "TOPIC 4", "Question 1 (Scenario)">>
      [] n = 6 -> <<"[CRITICAL INSTRUCTION FOR NEXT QUESTION]", "TOPIC 4", "Question 2 (Reflection)">>
      [] OTHER -> <<"[CRITICAL INSTRUCTION]", "final specific question", "">>

\* brain.py:271-281: self.question_count -> the directive text
Instruction(n) ==
    CASE n = 0 -> <<"[CRITICAL INSTRUCTION FOR NEXT QUESTION]", "TOPIC 1", "Question 1 (Overview)">>
      [] n = 1 -> <<"[CRITICAL INSTRUCTION FOR NEXT QUESTION]", "TOPIC 1", "Question 2 (Deep Dive)">>
      [] n = 2 -> <<"[CRITICAL INSTRUCTION FOR NEXT QUESTION]", "TOPIC 2", "Question 1 (Overview)">>
      [] n = 3 -> <<"[CRITICAL INSTRUCTION FOR NEXT QUESTION]", "TOPIC 2", "Question 2 (Technical Dive)">>
      [] n = 4 -> <<"[CRITICAL INSTRUCTION FOR NEXT QUESTION]", "TOPIC 3", "Question 1 (Overview)">>
      [] n = 5 -> <<"[CRITICAL INSTRUCTION FOR NEXT QUESTION]", "TOPIC 3", "Question 2 (Trade-offs/Challenges)">>
      [] n = 6 -> <<"[CRITICAL INSTRUCTION FOR NEXT QUESTION]", "TOPIC 4", "Question 1 (Scenario)">>
      [] n = 7 -> <<"[CRITICAL INSTRUCTION FOR NEXT QUESTION]", "TOPIC 4", "Question 2 (Reflection)">>
      [] OTHER -> <<"[CRITICAL INSTRUCTION]", "final specific question">>

\* brain.py:267-281
GetDynamicTopicInstruction(b) == Instruction(b.question_count)

\* TimeDirective with two ifs in place of if / elif
TimeDirectiveBoth(elapsed) ==
    (IF elapsed > FinalQuestionTime
     THEN <<Message("system", <<"[CRITICAL TIME WARNING]">>)>> ELSE <<>>)
    \o (IF elapsed > ConcludeTime
        THEN <<Message("system", <<"[TIME CHECK]">>)>> ELSE <<>>)

\* brain.py:294-298
TimeDirective(elapsed) ==
    IF elapsed > FinalQuestionTime
    THEN <<Message("system", <<"[CRITICAL TIME WARNING]">>)>>
    ELSE IF elapsed > ConcludeTime
    THEN <<Message("system", <<"[TIME CHECK]">>)>>
    ELSE <<>>

\* brain.py:44-48: "" without an expert profile, else the text that
\* build_question_strategy makes of the profile
NoStrategy == <<>>
ProfileStrategy == <<"EXPERT CONTEXT", "Name:", "Top Skills:", "Current Role:">>
Strategies == {NoStrategy, ProfileStrategy}

\* brain.py:286-287
StrategyMessage(strategy) ==
    IF strategy # <<>>
    THEN <<Message("system", <<"[EXPERT PROFILE & STRATEGY]">> \o strategy)>>
    ELSE <<>>

\* brain.py:52-57 and 290: no job_context attribute, None and {} are all falsy
NoJobContext == [present |-> FALSE]
\* a context loaded from JSON, and a dict holding a value json.dumps rejects
JobContext(role, serialisable) ==
    [present |-> TRUE, role |-> role, serialisable |-> serialisable]
JobContexts ==
    {JobContext("Data Engineer", TRUE), JobContext("Data Engineer", FALSE)}

ErrNotSerializable ==
    <<"Object", "of", "type", "set", "is", "not", "JSON", "serializable">>

\* json.dumps(self.job_context, indent=2)
JsonDumps(ctx) ==
    IF ctx.serialisable
    THEN [ok |-> TRUE, text |-> <<"{", "role", ctx.role, "}">>, err |-> <<>>]
    ELSE [ok |-> FALSE, text |-> <<>>, err |-> ErrNotSerializable]

\* JobContextMessage that never injects the context
JobContextMessageNone(ctx) == <<>>

\* brain.py:290-292
JobContextMessage(ctx) ==
    IF ctx.present
    THEN <<Message("system", <<"[DOMAIN KNOWLEDGE / JOB CONTEXT]">> \o JsonDumps(ctx).text)>>
    ELSE <<>>

\* brain.py:291: _build_conversation_messages raises what json.dumps raises
BuildRaises(b) == b.job_context.present /\ ~JsonDumps(b.job_context).ok

\* BuildConversationMessages with the history after the topic directive
BuildConversationMessagesHistoryLast(b, user_input, elapsed) ==
    <<Message("system", <<"[PERSONA]">>)>>
        \o StrategyMessage(b.interview_strategy)
        \o JobContextMessage(b.job_context)
        \o TimeDirective(elapsed)
        \o <<Message("system", GetDynamicTopicInstruction(b))>>
        \o b.conversation_history
        \o <<Message("user", user_input)>>

\* brain.py:283-308
BuildConversationMessages(b, user_input, elapsed) ==
    <<Message("system", <<"[PERSONA]">>)>>
        \o StrategyMessage(b.interview_strategy)
        \o JobContextMessage(b.job_context)
        \o TimeDirective(elapsed)
        \o b.conversation_history
        \o <<Message("system", GetDynamicTopicInstruction(b))>>
        \o <<Message("user", user_input)>>

\* brain.py:423-427
abuse_keywords ==
    { <<"stupid">>, <<"idiot">>, <<"fuck">>, <<"shit">>, <<"asshole">>, <<"dumb">>,
      <<"moron">>, <<"retard">>, <<"bitch">>, <<"shut", "up">> }

\* DetectAbuse without input_lower = user_input.lower()
DetectAbuseCaseSensitive(user_input) ==
    IF user_input = <<>> THEN FALSE
    ELSE \E k \in abuse_keywords : Contains(user_input, k)

DetectAbuse(user_input) ==
    IF user_input = <<>> THEN FALSE
    ELSE \E k \in abuse_keywords : Contains(LowerText(user_input), k)

\* brain.py:416-421
GetEmptyAnalysis ==
    [overall_score |-> DefaultOverall, depth_score |-> DefaultSubscore,
     thinking_score |-> DefaultSubscore, fit_score |-> DefaultSubscore,
     red_flags |-> <<>>, suggested_follow_up |-> "Continue"]

\* what the scoring call can come back with: a rubric object, no content, an
\* error of the service, or content that is not JSON
RubricRecord(s) ==
    [overall_score |-> s, depth_score |-> 4, thinking_score |-> 4,
     fit_score |-> 4, red_flags |-> <<>>, suggested_follow_up |-> "Go deeper"]
RubricScores == {85}
AnalysisOutcomes ==
    {[kind |-> "json", overall |-> s] : s \in RubricScores}
        \cup {[kind |-> k, overall |-> 0] : k \in {"empty", "error", "not_json"}}

\* AnalyzeAnswer with a zero record in place of _get_empty_analysis()
AnalyzeAnswerZeroOnFailure(ana) ==
    IF ana.kind = "json" THEN RubricRecord(ana.overall) ELSE RubricRecord(0)

\* brain.py:402-414
AnalyzeAnswer(ana) ==
    IF ana.kind = "json" THEN RubricRecord(ana.overall) ELSE GetEmptyAnalysis

\* GenerateClosingMessage with no text in place of the fixed one
GenerateClosingMessageEmpty(svc, text) ==
    IF svc["gpt-4o-mini"].std.ok THEN text ELSE <<>>

\* brain.py:248-264: one direct call to gpt-4o-mini, a fixed text when it fails
GenerateClosingMessage(svc, text) ==
    IF svc["gpt-4o-mini"].std.ok THEN text ELSE FallbackClosingMessage

\* RecordExchange appending the reply without the answer it replies to
RecordExchangeReplyOnly(b, user_input, spoken_text) ==
    [b EXCEPT !.conversation_history = @ \o <<Message("assistant", spoken_text)>>,
              !.question_count = @ + 1]

\* brain.py:238-240: what a successful generation does to the brain
RecordExchange(b, user_input, spoken_text) ==
    [b EXCEPT !.conversation_history =
                  @ \o <<Message("user", user_input),
                         Message("assistant", spoken_text)>>,
              !.question_count = @ + 1]

\* AfterInvocation counting the question when the generation failed too
AfterInvocationCountsFailure(b, user_input, messages, inv) ==
    IF inv.response.present
    THEN [brain |-> RecordExchange(b, user_input, inv.response.content),
          spoken |-> inv.response.content,
          request |-> messages, invocation |-> inv]
    ELSE [brain |-> [b EXCEPT !.last_error = AllFailedError(inv.error_log),
                              !.question_count = @ + 1],
          spoken |-> ApologyMessage,
          request |-> messages, invocation |-> inv]

\* brain.py:214-246: the new brain, the text spoken, and the request and
\* invocation made, once the loop has ended with inv
AfterInvocation(b, user_input, messages, inv) ==
    IF inv.response.present
    THEN [brain |-> RecordExchange(b, user_input, inv.response.content),
          spoken |-> inv.response.content,
          request |-> messages, invocation |-> inv]
    ELSE [brain |-> [b EXCEPT !.last_error = AllFailedError(inv.error_log)],
          spoken |-> ApologyMessage,
          request |-> messages, invocation |-> inv]

\* brain.py:145-246
GenerateSpokenResponse(b, cfg, user_input, elapsed, svc, text) ==
    AfterInvocation(b, user_input,
                    BuildConversationMessages(b, user_input, elapsed),
                    Invoke(cfg.provider, cfg.deployment_name, svc, text))

NoInvocation ==
    [response |-> NoResponse, winner |-> "", error_log |-> <<>>, calls |-> <<>>]

\* brain.py:127
IsClosingStatement(spoken) ==
    \/ Contains(LowerText(spoken), <<"thank", "you">>)
    \/ Contains(LowerText(spoken), <<"goodbye">>)
    \/ Contains(LowerText(spoken), <<"hear", "back">>)

\* EarlyTermination without elapsed_time > 600
EarlyTerminationAnyTime(elapsed, spoken) == IsClosingStatement(spoken)

\* brain.py:125-127
EarlyTermination(elapsed, spoken) == elapsed > ConcludeTime /\ IsClosingStatement(spoken)

\* PhaseForCount with <= 8 in place of < 8
PhaseForCountLateClosing(n) ==
    IF n = 1 THEN "OPENING"
    ELSE IF n <= CurriculumLength THEN "QUESTIONS"
    ELSE "CLOSING"

\* brain.py:117-123
PhaseForCount(n) ==
    IF n = 1 THEN "OPENING"
    ELSE IF n < CurriculumLength THEN "QUESTIONS"
    ELSE "CLOSING"

\* AbuseTurn counting the abusive input as an answered question
AbuseTurnCountsQuestion(b) ==
    LET b1 == [b EXCEPT !.strike_count = @ + 1, !.question_count = @ + 1]
    IN  [brain |-> b1,
         result |->
            IF b1.strike_count = 1
            THEN [spoken_response |-> WarningMessage,
                  analysis |-> [overall_score |-> 0,
                                red_flags |-> <<"Inappropriate language">>,
                                depth_score |-> 1, thinking_score |-> 1,
                                fit_score |-> 1],
                  terminate |-> FALSE, warning_issued |-> TRUE,
                  phase |-> "WARNING"]
            ELSE [spoken_response |-> ConductMessage,
                  analysis |-> [overall_score |-> 0,
                                red_flags |-> <<"Terminated for conduct">>,
                                depth_score |-> 1, thinking_score |-> 1,
                                fit_score |-> 1],
                  terminate |-> TRUE, warning_issued |-> FALSE,
                  phase |-> "TERMINATED"],
         branch |-> "abuse", request |-> <<>>, invocation |-> NoInvocation,
         closing_call |-> FALSE, scoring_call |-> FALSE, raised |-> FALSE]

\* brain.py:64-78
AbuseTurn(b) ==
    LET b1 == [b EXCEPT !.strike_count = @ + 1]
    IN  [brain |-> b1,
         result |->
            IF b1.strike_count = 1
            THEN [spoken_response |-> WarningMessage,
                  analysis |-> [overall_score |-> 0,
                                red_flags |-> <<"Inappropriate language">>,
                                depth_score |-> 1, thinking_score |-> 1,
                                fit_score |-> 1],
                  terminate |-> FALSE, warning_issued |-> TRUE,
                  phase |-> "WARNING"]
            ELSE [spoken_response |-> ConductMessage,
                  analysis |-> [overall_score |-> 0,
                                red_flags |-> <<"Terminated for conduct">>,
                                depth_score |-> 1, thinking_score |-> 1,
                                fit_score |-> 1],
                  terminate |-> TRUE, warning_issued |-> FALSE,
                  phase |-> "TERMINATED"],
         branch |-> "abuse", request |-> <<>>, invocation |-> NoInvocation,
         closing_call |-> FALSE, scoring_call |-> FALSE, raised |-> FALSE]

\* brain.py:81-86
TimeLimitTurn(b) ==
    [brain |-> b,
     result |-> [spoken_response |-> TimeLimitMessage,
                 analysis |-> [overall_score |-> 0,
                               note |-> "Interview completed on time",
                               depth_score |-> DefaultSubscore,
                               thinking_score |-> DefaultSubscore,
                               fit_score |-> DefaultSubscore],
                 terminate |-> TRUE, warning_issued |-> FALSE,
                 phase |-> "TERMINATED"],
     branch |-> "time_limit", request |-> <<>>, invocation |-> NoInvocation,
     closing_call |-> FALSE, scoring_call |-> FALSE, raised |-> FALSE]

\* ClosingTurn that does not end the interview
ClosingTurnGoesOn(b, svc, text, ana) ==
    [brain |-> b,
     result |-> [spoken_response |-> GenerateClosingMessage(svc, text),
                 analysis |-> AnalyzeAnswer(ana),
                 terminate |-> FALSE, warning_issued |-> FALSE,
                 phase |-> "TERMINATED"],
     branch |-> "closing", request |-> <<>>, invocation |-> NoInvocation,
     closing_call |-> TRUE, scoring_call |-> TRUE, raised |-> FALSE]

\* brain.py:90-107
ClosingTurn(b, svc, text, ana) ==
    [brain |-> b,
     result |-> [spoken_response |-> GenerateClosingMessage(svc, text),
                 analysis |-> AnalyzeAnswer(ana),
                 terminate |-> TRUE, warning_issued |-> FALSE,
                 phase |-> "TERMINATED"],
     branch |-> "closing", request |-> <<>>, invocation |-> NoInvocation,
     closing_call |-> TRUE, scoring_call |-> TRUE, raised |-> FALSE]

\* brain.py:112-143: g is what generate_spoken_response returned
AfterGeneration(g, elapsed, analysis) ==
    [brain |-> [g.brain EXCEPT !.interview_phase = PhaseForCount(g.brain.question_count)],
     result |->
        IF EarlyTermination(elapsed, g.spoken)
        THEN [spoken_response |-> g.spoken, analysis |-> analysis,
              terminate |-> TRUE, warning_issued |-> FALSE,
              phase |-> "TERMINATED"]
        ELSE [spoken_response |-> g.spoken, analysis |-> analysis,
              terminate |-> FALSE, warning_issued |-> FALSE,
              phase |-> PhaseForCount(g.brain.question_count)],
     branch |-> "standard", request |-> g.request, invocation |-> g.invocation,
     closing_call |-> FALSE, scoring_call |-> TRUE, raised |-> FALSE]

\* brain.py:110 and 146: an exception of _build_conversation_messages leaves
\* generate_spoken_response and handle_user_input, the brain as it was
RaisedTurn(b, err) ==
    [brain |-> b, raised |-> TRUE, error |-> err, branch |-> "standard",
     request |-> <<>>, invocation |-> NoInvocation,
     closing_call |-> FALSE, scoring_call |-> FALSE]

\* brain.py:109-143
StandardTurn(b, cfg, user_input, elapsed, svc, text, ana) ==
    IF BuildRaises(b)
    THEN RaisedTurn(b, JsonDumps(b.job_context).err)
    ELSE AfterGeneration(GenerateSpokenResponse(b, cfg, user_input, elapsed, svc, text),
                         elapsed, AnalyzeAnswer(ana))

\* HandleUserInput without the hard time limit
HandleUserInputNoTimeLimit(b, cfg, user_input, elapsed, svc, text, ana) ==
    IF DetectAbuse(user_input) THEN AbuseTurn(b)
    ELSE IF b.question_count >= CurriculumLength THEN ClosingTurn(b, svc, text, ana)
    ELSE StandardTurn(b, cfg, user_input, elapsed, svc, text, ana)

\* HandleUserInput closing only when question_count > 8
HandleUserInputLateClosing(b, cfg, user_input, elapsed, svc, text, ana) ==
    IF DetectAbuse(user_input) THEN AbuseTurn(b)
    ELSE IF elapsed > HardTimeLimit THEN TimeLimitTurn(b)
    ELSE IF b.question_count > CurriculumLength THEN ClosingTurn(b, svc, text, ana)
    ELSE StandardTurn(b, cfg, user_input, elapsed, svc, text, ana)

\* HandleUserInput testing the question count before the elapsed time
HandleUserInputClosingFirst(b, cfg, user_input, elapsed, svc, text, ana) ==
    IF DetectAbuse(user_input) THEN AbuseTurn(b)
    ELSE IF b.question_count >= CurriculumLength THEN ClosingTurn(b, svc, text, ana)
    ELSE IF elapsed > HardTimeLimit THEN TimeLimitTurn(b)
    ELSE StandardTurn(b, cfg, user_input, elapsed, svc, text, ana)

\* brain.py:60-143
HandleUserInput(b, cfg, user_input, elapsed, svc, text, ana) ==
    IF DetectAbuse(user_input) THEN AbuseTurn(b)
    ELSE IF elapsed > HardTimeLimit THEN TimeLimitTurn(b)
    ELSE IF b.question_count >= CurriculumLength THEN ClosingTurn(b, svc, text, ana)
    ELSE StandardTurn(b, cfg, user_input, elapsed, svc, text, ana)

-----------------------------------------------------------------------------
(* Listener and Speaker (listener.py, speaker.py) *)

\* what the microphone and the speech-to-text service can deliver
AudioInputs ==
    {[kind |-> "speech", text |-> t] : t \in UserTexts}
        \cup {[kind |-> k, text |-> <<>>] :
                k \in {"none", "too_short", "unintelligible", "service_error"}}

\* listener.py:11-90: never raises; "" for no or short audio, a dict otherwise,
\* with text "" when the service call failed
GetTranscription(audio) ==
    CASE audio.kind = "none" -> [raised |-> FALSE, is_dict |-> FALSE, text |-> <<>>]
      [] audio.kind = "too_short" -> [raised |-> FALSE, is_dict |-> FALSE, text |-> <<>>]
      [] audio.kind = "service_error" -> [raised |-> FALSE, is_dict |-> TRUE, text |-> <<>>]
      [] OTHER -> [raised |-> FALSE, is_dict |-> TRUE, text |-> audio.text]

TtsOutcomes == {"ok", "no_file", "error"}

\* TextToSpeech that cannot fail
TextToSpeechAlwaysAudio(tts) == "audio_bytes"

\* speaker.py:20-56: the audio bytes, or None
TextToSpeech(tts) == IF tts = "ok" THEN "audio_bytes" ELSE "None"

-----------------------------------------------------------------------------
(* Orchestrator (orchestrator.py) *)

\* orchestrator.py:33
Elapsed(t, start) == IF start # NoTime THEN t - start ELSE 0

RECURSIVE SumOverall(_)
SumOverall(ss) ==
    IF ss = <<>> THEN 0 ELSE Head(ss).overall_score + SumOverall(Tail(ss))

\* orchestrator.py:92-94
FinalScore(ss, old) == IF ss # <<>> THEN SumOverall(ss) \div Len(ss) ELSE old

\* orchestrator.py:89-90
AppendScore(ss, analysis) ==
    IF DOMAIN analysis # {} THEN Append(ss, analysis) ELSE ss

\* AppendTurns with the interviewer turn first
AppendTurnsAiFirst(tr, user_text, ai_text, elapsed) ==
    tr \o << [role |-> "ai", text |-> ai_text, timestamp |-> elapsed],
             [role |-> "user", text |-> user_text, timestamp |-> elapsed] >>

\* orchestrator.py:86-87
AppendTurns(tr, user_text, ai_text, elapsed) ==
    tr \o << [role |-> "user", text |-> user_text, timestamp |-> elapsed],
             [role |-> "ai", text |-> ai_text, timestamp |-> elapsed] >>

\* PhaseAfterTurn without self.phase = brain_result["phase"]
PhaseAfterTurnKeepsActive(res) == IF res.terminate THEN "TERMINATED" ELSE "ACTIVE"

\* orchestrator.py:56 and 96-97
PhaseAfterTurn(res) == IF res.terminate THEN "TERMINATED" ELSE res.phase

\* ReturnedFlag passing should_terminate on
ReturnedFlagTerminate(should_terminate) == should_terminate

\* orchestrator.py:43, 46, 75, 99: the fourth element of the returned tuple
ReturnedFlag(should_terminate) == FALSE

\* orchestrator.py:59-62
SurfaceBrainError(old, berr) ==
    IF berr # <<>> THEN <<"[Brain Internal]">> \o berr ELSE old

Brain ==
    [conversation_history |-> conversation_history,
     interview_phase |-> interview_phase,
     strike_count |-> strike_count,
     question_count |-> question_count,
     last_error |-> brain_last_error,
     job_context |-> job_context,
     interview_strategy |-> interview_strategy]

Config == [provider |-> provider, deployment_name |-> deployment_name]

NoBrainResult == [called |-> FALSE, raised |-> FALSE]
\* no candidate tried yet in this invocation; no invocation before this one
NoBehaviour == [std |-> [ok |-> FALSE, err |-> <<>>], reduced |-> [ok |-> FALSE, err |-> <<>>]]
NoPrevious == [made |-> FALSE, won |-> FALSE, winner |-> ""]
NoTurnInputs == [made |-> FALSE]
NoTurnResult ==
    [user_text |-> <<>>, ai_text |-> <<>>, ai_audio |-> "None", flag |-> FALSE]

\* the departures of a turn's inputs from the nominal turn
OffAudio(audio) == IF audio = [kind |-> "speech", text |-> CleanText] THEN 0 ELSE 1
OffService(svc) == IF svc = SvcAllOk THEN 0 ELSE 1
OffText(text) == IF text = QuestionText THEN 0 ELSE 1
OffScoring(ana) == IF ana.kind = "json" THEN 0 ELSE 1
OffSpeech(tts) == IF tts = "ok" THEN 0 ELSE 1
OffStrategy(strategy) == IF strategy = NoStrategy THEN 0 ELSE 1
\* SvcDown is an outage of the text service: the scoring request raising with
\* it is the same departure
Departures(audio, svc, text, ana, tts) ==
    OffAudio(audio) + OffService(svc) + OffText(text)
        + (IF svc = SvcDown /\ ana.kind = "error" THEN 0 ELSE OffScoring(ana))
        + OffSpeech(tts)

TypeOK ==
    /\ now \in Nat
    /\ phase \in {"READY", "ACTIVE", "WARNING", "OPENING", "QUESTIONS", "CLOSING", "TERMINATED"}
    /\ strike_count \in Nat
    /\ question_count \in Nat
    /\ final_score \in Nat
    /\ handled \in Nat
    /\ first_terminate \in 0..handled
    /\ pc \in {"idle", "loop", "done"}

Init ==
    /\ now = Epoch
    /\ transcript = <<>>
    /\ scores = <<>>
    /\ phase = "READY"
    /\ start_time = NoTime
    /\ final_score = 0
    /\ last_error = <<>>
    /\ conversation_history = <<>>
    /\ interview_phase = "OPENING"
    /\ strike_count = 0
    /\ question_count = 0
    /\ brain_last_error = <<>>
    /\ job_context = NoJobContext
    /\ provider = "azure"
    /\ deployment_name = "gpt-4o"
    /\ interview_strategy \in Strategies
    /\ lastOp = "init"
    /\ turn_result = NoTurnResult
    /\ brain_result = NoBrainResult
    /\ request = <<>>
    /\ invocation = NoInvocation
    /\ turn_inputs = NoTurnInputs
    /\ asked = <<>>
    /\ handled = 0
    /\ first_terminate = 0
    /\ turns = 0
    /\ faults = OffStrategy(interview_strategy)
    /\ pc = "idle"
    /\ check_models = <<>>
    /\ idx = 0
    /\ response = NoResponse
    /\ error_log = <<>>
    /\ calls = <<>>
    /\ model_to_use = ""
    /\ behaviour = NoBehaviour
    /\ previous_invocation = NoPrevious

\* time passes between two calls
TickSteps == {650, 800, 900}
Tick(maxFaults) ==
    /\ faults < maxFaults
    /\ \E d \in TickSteps : now' = now + d
    /\ faults' = faults + 1
    /\ lastOp' = "tick"
    /\ UNCHANGED <<orchVars, brainVars, cfgVars, turn_result, brain_result,
                   request, invocation, asked, turn_inputs, handled,
                   first_terminate, turns, loopVars>>

\* StartInterview without self.transcript = []
StartInterviewKeepsTranscript(maxFaults) ==
    /\ lastOp # "init" => faults < maxFaults
    /\ faults' = IF lastOp = "init" THEN faults ELSE faults + 1
    /\ start_time' = now
    /\ phase' = "ACTIVE"
    /\ scores' = <<>>
    /\ lastOp' = "start_interview"
    /\ UNCHANGED <<now, transcript, final_score, last_error, brainVars, cfgVars,
                   turn_result, brain_result, request, invocation, asked,
                   turn_inputs, handled, first_terminate, turns, loopVars>>

\* StartInterview clearing the final score too
StartInterviewResetsScore(maxFaults) ==
    /\ lastOp # "init" => faults < maxFaults
    /\ faults' = IF lastOp = "init" THEN faults ELSE faults + 1
    /\ start_time' = now
    /\ phase' = "ACTIVE"
    /\ transcript' = <<>>
    /\ scores' = <<>>
    /\ final_score' = 0
    /\ lastOp' = "start_interview"
    /\ UNCHANGED <<now, last_error, brainVars, cfgVars, turn_result,
                   brain_result, request, invocation, asked, turn_inputs,
                   handled, first_terminate, turns, loopVars>>

\* orchestrator.py:26-30; a session is started once, a start at any later
\* point is a departure
StartInterview(maxFaults) ==
    /\ lastOp # "init" => faults < maxFaults
    /\ faults' = IF lastOp = "init" THEN faults ELSE faults + 1
    /\ start_time' = now
    /\ phase' = "ACTIVE"
    /\ transcript' = <<>>
    /\ scores' = <<>>
    /\ lastOp' = "start_interview"
    /\ UNCHANGED <<now, final_score, last_error, brainVars, cfgVars, turn_result,
                   brain_result, request, invocation, asked, turn_inputs,
                   handled, first_terminate, turns, loopVars>>

\* brain.py:52-57; the application sets no job context, a call is a departure
SetJobContext(maxFaults) ==
    /\ faults < maxFaults
    /\ \E ctx \in JobContexts : job_context' = ctx
    /\ faults' = faults + 1
    /\ lastOp' = "set_job_context"
    /\ UNCHANGED <<now, orchVars, conversation_history, interview_phase,
                   strike_count, question_count, brain_last_error, cfgVars,
                   turn_result, brain_result, request, invocation, asked,
                   turn_inputs, handled, first_terminate, turns, loopVars>>

\* the topic directive of a generation request: the message before the last
DirectiveOf(messages) == messages[Len(messages) - 1].content

\* ShortCircuit recording the fixed response in the transcript
ShortCircuitAppends(message) ==
    /\ turn_result' = [user_text |-> <<>>, ai_text |-> message,
                       ai_audio |-> "None", flag |-> FALSE]
    /\ brain_result' = NoBrainResult
    /\ request' = <<>>
    /\ invocation' = NoInvocation
    /\ transcript' = Append(transcript, [role |-> "ai", text |-> message,
                                         timestamp |-> Elapsed(now, start_time)])
    /\ UNCHANGED <<scores, phase, start_time, final_score, last_error,
                   brainVars, asked, handled, first_terminate>>

\* orchestrator.py:35-46: no transcript, the brain is not called
ShortCircuit(message) ==
    /\ turn_result' = [user_text |-> <<>>, ai_text |-> message,
                       ai_audio |-> "None", flag |-> ReturnedFlag(FALSE)]
    /\ brain_result' = NoBrainResult
    /\ request' = <<>>
    /\ invocation' = NoInvocation
    /\ UNCHANGED <<orchVars, brainVars, asked, handled, first_terminate>>

\* orchestrator.py:49-99: h is what handle_user_input did and returned
CompleteTurn(user_text, elapsed_time, h, audio_out) ==
    /\ conversation_history' = h.brain.conversation_history
    /\ interview_phase' = h.brain.interview_phase
    /\ strike_count' = h.brain.strike_count
    /\ question_count' = h.brain.question_count
    /\ brain_last_error' = <<>>
    /\ job_context' = h.brain.job_context
    /\ last_error' = SurfaceBrainError(last_error, h.brain.last_error)
    /\ transcript' = AppendTurns(transcript, user_text,
                                 h.result.spoken_response, elapsed_time)
    /\ scores' = AppendScore(scores, h.result.analysis)
    /\ final_score' = FinalScore(AppendScore(scores, h.result.analysis), final_score)
    /\ phase' = PhaseAfterTurn(h.result)
    /\ UNCHANGED start_time
    /\ turn_result' = [user_text |-> user_text,
                       ai_text |-> h.result.spoken_response,
                       ai_audio |-> audio_out,
                       flag |-> ReturnedFlag(h.result.terminate)]
    /\ brain_result' =
           [called |-> TRUE, raised |-> FALSE, branch |-> h.branch,
            elapsed |-> elapsed_time, user_input |-> user_text,
            result |-> h.result, closing_call |-> h.closing_call,
            scoring_call |-> h.scoring_call]
    /\ request' = h.request
    /\ invocation' = h.invocation
    /\ asked' = IF h.invocation.response.present
                THEN Append(asked, DirectiveOf(h.request))
                ELSE asked
    /\ handled' = handled + 1
    /\ first_terminate' = IF first_terminate = 0 /\ h.result.terminate
                          THEN handled + 1
                          ELSE first_terminate

\* BrainFailure recording the turn in the transcript
BrainFailureAppends(user_text, elapsed_time, h) ==
    /\ last_error' = <<"[Brain Error]">> \o h.error
    /\ turn_result' = [user_text |-> user_text, ai_text |-> TechnicalIssueMessage,
                       ai_audio |-> "None", flag |-> FALSE]
    /\ brain_result' = [called |-> TRUE, raised |-> TRUE, branch |-> h.branch,
                        elapsed |-> elapsed_time, user_input |-> user_text,
                        error |-> h.error, closing_call |-> h.closing_call,
                        scoring_call |-> h.scoring_call]
    /\ request' = h.request
    /\ invocation' = h.invocation
    /\ transcript' = AppendTurns(transcript, user_text, TechnicalIssueMessage,
                                 elapsed_time)
    /\ handled' = handled + 1
    /\ UNCHANGED <<scores, phase, start_time, final_score, brainVars, asked,
                   first_terminate>>

\* orchestrator.py:64-75: handle_user_input raised
BrainFailure(user_text, elapsed_time, h) ==
    /\ last_error' = <<"[Brain Error]">> \o h.error
    /\ turn_result' = [user_text |-> user_text, ai_text |-> TechnicalIssueMessage,
                       ai_audio |-> "None", flag |-> ReturnedFlag(FALSE)]
    /\ brain_result' = [called |-> TRUE, raised |-> TRUE, branch |-> h.branch,
                        elapsed |-> elapsed_time, user_input |-> user_text,
                        error |-> h.error, closing_call |-> h.closing_call,
                        scoring_call |-> h.scoring_call]
    /\ request' = h.request
    /\ invocation' = h.invocation
    /\ handled' = handled + 1
    /\ UNCHANGED <<transcript, scores, phase, start_time, final_score,
                   brainVars, asked, first_terminate>>

\* orchestrator.py:48-99: the brain call and what follows it
AfterBrain(user_text, elapsed_time, h, audio_out) ==
    IF h.raised
    THEN BrainFailure(user_text, elapsed_time, h)
    ELSE CompleteTurn(user_text, elapsed_time, h, audio_out)

\* orchestrator.py:32-99 with the turn's inputs: the audio, the behaviour of the
\* generation service and the text it generates, the outcome of the scoring
\* call and of speech synthesis
RunInterviewTurn(audio, svc, text, ana, tts) ==
    /\ turns' = turns + 1
    /\ faults' = faults + Departures(audio, svc, text, ana, tts)
    /\ lastOp' = "run_turn"
    /\ turn_inputs' = [made |-> TRUE, audio_input |-> audio, svc |-> svc,
                       text |-> text, ana |-> ana, tts |-> tts]
    /\ IF GetTranscription(audio).raised
       THEN ShortCircuit(TroubleHearingMessage)
       ELSE IF GetTranscription(audio).text = <<>>
       THEN ShortCircuit(DidntCatchMessage)
       ELSE AfterBrain(GetTranscription(audio).text,
                       Elapsed(now, start_time),
                       HandleUserInput(Brain, Config, GetTranscription(audio).text,
                                       Elapsed(now, start_time), svc, text, ana),
                       TextToSpeech(tts))
    /\ UNCHANGED <<now, cfgVars, loopVars>>

RunTurn(maxTurns, maxFaults) ==
    /\ turns < maxTurns
    /\ \E audio \in {a \in AudioInputs : faults + OffAudio(a) <= maxFaults} :
       \E svc \in {v \in ServiceBehaviours :
                     faults + OffAudio(audio) + OffService(v) <= maxFaults} :
       \E text \in GeneratedTexts, ana \in AnalysisOutcomes, tts \in TtsOutcomes :
          /\ faults + Departures(audio, svc, text, ana, tts) <= maxFaults
          /\ RunInterviewTurn(audio, svc, text, ana, tts)

Next ==
    \/ Tick(MaxFaults)
    \/ StartInterview(MaxFaults)
    \/ SetJobContext(MaxFaults)
    \/ RunTurn(MaxTurns, MaxFaults)

NextInterview ==
    \/ Tick(InterviewFaults)
    \/ StartInterview(InterviewFaults)
    \/ SetJobContext(InterviewFaults)
    \/ RunTurn(InterviewTurns, InterviewFaults)

Spec == Init /\ [][Next]_vars

SpecInterview == Init /\ [][NextInterview]_vars

-----------------------------------------------------------------------------
(* The fallback loop of generate_spoken_response, one candidate at a time *)

Providers == {"azure", "openai"}
\* AZURE_OPENAI_DEPLOYMENT_NAME: the default, another fallback model, a custom name
DeploymentNames == {"gpt-4o", "gpt-35-turbo", CustomDeployment}

\* brain.py:13-33: the openai provider forces the deployment name
InitInvoke ==
    /\ provider \in Providers
    /\ deployment_name \in
          IF provider = "openai" THEN {"gpt-4o-mini"} ELSE DeploymentNames
    /\ interview_strategy = NoStrategy
    /\ now = Epoch
    /\ transcript = <<>>
    /\ scores = <<>>
    /\ phase = "READY"
    /\ start_time = NoTime
    /\ final_score = 0
    /\ last_error = <<>>
    /\ conversation_history = <<>>
    /\ interview_phase = "OPENING"
    /\ strike_count = 0
    /\ question_count = 0
    /\ brain_last_error = <<>>
    /\ job_context = NoJobContext
    /\ lastOp = "init"
    /\ turn_result = NoTurnResult
    /\ brain_result = NoBrainResult
    /\ request = <<>>
    /\ invocation = NoInvocation
    /\ turn_inputs = NoTurnInputs
    /\ asked = <<>>
    /\ handled = 0
    /\ first_terminate = 0
    /\ turns = 0
    /\ faults = 0
    /\ pc = "idle"
    /\ check_models = <<>>
    /\ idx = 0
    /\ response = NoResponse
    /\ error_log = <<>>
    /\ calls = <<>>
    /\ model_to_use = ""
    /\ behaviour = NoBehaviour
    /\ previous_invocation = NoPrevious

restOfInvoke == <<now, orchVars, brainVars, cfgVars, lastOp, turn_result,
                  brain_result, request, asked, turn_inputs, handled,
                  first_terminate, turns, faults>>

\* InvokeStart with the winner of the last invocation kept as the preferred
\* model
InvokeStartKeepsWinner ==
    /\ pc = "idle"
    /\ model_to_use' = IF invocation.response.present THEN invocation.winner
                       ELSE ModelToUse(provider, deployment_name)
    /\ check_models' = <<model_to_use'>> \o
                           SelectSeq(fallback_models, LAMBDA m : m # model_to_use')
    /\ idx' = 1
    /\ response' = NoResponse
    /\ error_log' = <<>>
    /\ calls' = <<>>
    /\ pc' = "loop"
    /\ invocation' = NoInvocation
    /\ behaviour' = NoBehaviour
    /\ previous_invocation' = [made |-> invocation # NoInvocation,
                               won |-> invocation.response.present,
                               winner |-> invocation.winner]
    /\ UNCHANGED restOfInvoke

\* brain.py:149-172
InvokeStart ==
    /\ pc = "idle"
    /\ model_to_use' = ModelToUse(provider, deployment_name)
    /\ check_models' = CheckModels(provider, deployment_name)
    /\ idx' = 1
    /\ response' = NoResponse
    /\ error_log' = <<>>
    /\ calls' = <<>>
    /\ pc' = "loop"
    /\ invocation' = NoInvocation
    /\ behaviour' = NoBehaviour
    /\ previous_invocation' = [made |-> invocation # NoInvocation,
                               won |-> invocation.response.present,
                               winner |-> invocation.winner]
    /\ UNCHANGED restOfInvoke

\* brain.py:174-212: one pass of the loop, r being what the candidate did
LoopPass(r) ==
    /\ calls' = calls \o r.calls
    /\ error_log' = error_log \o r.logged
    /\ response' = r.response
    /\ IF LoopEnds(r.response)
       THEN /\ model_to_use' = check_models[idx]
            /\ pc' = "done"
            /\ UNCHANGED idx
       ELSE /\ idx' = idx + 1
            /\ UNCHANGED <<model_to_use, pc>>

TryNext ==
    /\ pc = "loop"
    /\ idx <= Len(check_models)
    /\ \E beh \in Behaviours :
          /\ LoopPass(TryCandidate(check_models[idx], beh, QuestionText))
          /\ behaviour' = beh
    /\ UNCHANGED <<restOfInvoke, invocation, check_models, previous_invocation>>

\* brain.py:174 and 214: the candidates are used up
LoopExhausted ==
    /\ pc = "loop"
    /\ idx > Len(check_models)
    /\ pc' = "done"
    /\ UNCHANGED <<restOfInvoke, invocation, check_models, idx, response,
                   error_log, calls, model_to_use, behaviour,
                   previous_invocation>>

\* brain.py:214-246: the invocation is over, with a response or with the
\* error that lists error_log
InvokeReturn ==
    /\ pc = "done"
    /\ invocation' = [response |-> response, winner |-> model_to_use,
                      error_log |-> error_log, calls |-> calls]
    /\ pc' = "idle"
    /\ UNCHANGED <<restOfInvoke, check_models, idx, response, error_log, calls,
                   model_to_use, behaviour, previous_invocation>>

NextInvoke == InvokeStart \/ TryNext \/ LoopExhausted \/ InvokeReturn

SpecInvoke == InitInvoke /\ [][NextInvoke]_vars

\* the for loop of brain.py:174 goes on to its next pass whenever the service
\* call of the current pass has returned or raised
SpecInvokeFair ==
    SpecInvoke /\ WF_vars(TryNext) /\ WF_vars(LoopExhausted) /\ WF_vars(InvokeReturn)

-----------------------------------------------------------------------------
(* Properties *)

\* error_log when every candidate fails as in SvcDown, gpt-4o being tried first
SvcDownLog ==
    <<LogEntry("gpt-4o", ErrRateLimit)>> \o
        [i \in 1..7 |-> LogEntry(SelectSeq(fallback_models, LAMBDA m : m # "gpt-4o")[i],
                                 ErrNotFound)]

\* the candidate texts that contain an abuse keyword
AbusiveTexts == {AbusiveText, ShoutedText}

\* the step is a run_interview_turn call that got a result from
\* handle_user_input
HandleStep == turns' = turns + 1 /\ brain_result'.called /\ ~brain_result'.raised

\* the last operation was a run_interview_turn call that got a result from
\* handle_user_input
Handled == lastOp = "run_turn" /\ brain_result.called /\ ~brain_result.raised

\* C1: with strike count 0, abusive text sets the strike count to 1 and gets
\* the fixed warning (warning_issued, phase WARNING, no termination); with
\* strike count 1, abusive text gets the fixed termination message with
\* terminate and phase TERMINATED, whatever the elapsed time.
C1_TwoStrikePolicy ==
    [][ (HandleStep /\ brain_result'.user_input \in AbusiveTexts) =>
            /\ strike_count = 0 =>
                  /\ strike_count' = 1
                  /\ brain_result'.result.spoken_response = WarningMessage
                  /\ brain_result'.result.warning_issued
                  /\ brain_result'.result.phase = "WARNING"
                  /\ ~brain_result'.result.terminate
            /\ strike_count = 1 =>
                  /\ brain_result'.result.spoken_response = ConductMessage
                  /\ brain_result'.result.terminate
                  /\ brain_result'.result.phase = "TERMINATED" ]_vars

C1_Witness ==
    /\ Handled
    /\ strike_count = 2
    /\ brain_result.user_input \in AbusiveTexts
    /\ brain_result.result.spoken_response = ConductMessage
    /\ brain_result.result.terminate

\* C2: once the strike count is 2 or more and the session is TERMINATED, every
\* further run_interview_turn call leaves the session phase TERMINATED and does
\* not lower the strike count.
C2_TerminatedForGood ==
    [][ (strike_count >= 2 /\ phase = "TERMINATED" /\ turns' = turns + 1) =>
            (phase' = "TERMINATED" /\ strike_count' >= strike_count) ]_vars

\* C3 as stated: every handle_user_input call with elapsed time over 890
\* returns terminate = true, abusive text or not.
C3_AlwaysTerminatesPastLimit ==
    (Handled /\ brain_result.elapsed > HardTimeLimit) => brain_result.result.terminate

\* C3 amended: a handle_user_input call with elapsed time over 890 returns
\* terminate = true at every question count, except for abusive text that is
\* the first strike, which gets the warning with terminate = false.
C3_TerminatesPastLimitButFirstStrike ==
    (Handled /\ brain_result.elapsed > HardTimeLimit) =>
        (brain_result.result.terminate <=>
            ~(brain_result.user_input \in AbusiveTexts /\ strike_count = 1))

C3_Witness ==
    /\ Handled
    /\ brain_result.elapsed > HardTimeLimit
    /\ brain_result.user_input \notin AbusiveTexts
    /\ question_count > 0
    /\ brain_result.result.terminate
    /\ brain_result.result.spoken_response = TimeLimitMessage

\* C4: the question counter goes up by exactly 1 in a standard turn (text not
\* abusive, elapsed time at most 890, counter below 8) whose generation call
\* got a response, and is unchanged by every other step.
C4_QuestionCounter ==
    [][ IF /\ HandleStep
           /\ brain_result'.user_input \notin AbusiveTexts
           /\ brain_result'.elapsed <= HardTimeLimit
           /\ question_count < CurriculumLength
           /\ invocation'.response.present
        THEN question_count' = question_count + 1
        ELSE question_count' = question_count ]_vars

C4_Witness ==
    /\ Handled
    /\ question_count = CurriculumLength
    /\ brain_result.branch = "closing"

TopicName(k) ==
    CASE k = 1 -> "TOPIC 1" [] k = 2 -> "TOPIC 2" [] k = 3 -> "TOPIC 3"
      [] k = 4 -> "TOPIC 4" [] OTHER -> "none"

\* the question count the last generation request was built at
CountAtRequest ==
    IF invocation.response.present THEN question_count - 1 ELSE question_count

\* C5: the directive of a generation request names topic (count div 2) + 1; the
\* answered requests use the topics in order, two slots each, and no two
\* consecutive ones carry the same (topic, role) pair.
C5_TopicPlan ==
    /\ request # <<>> =>
          DirectiveOf(request)[2] = TopicName((CountAtRequest \div 2) + 1)
    /\ \A i \in 1..Len(asked) : asked[i][2] = TopicName(((i - 1) \div 2) + 1)
    /\ \A i \in 1..(Len(asked) - 1) :
          <<asked[i][2], asked[i][3]>> # <<asked[i + 1][2], asked[i + 1][3]>>
    /\ \A i, j \in 1..Len(asked) :
          (i < j /\ asked[i][2] = asked[j][2]) => (j = i + 1 /\ i % 2 = 1)

C5_Witness == Len(asked) = CurriculumLength /\ question_count = CurriculumLength

\* C6: final_score is the floor of the mean of the overall scores in scores,
\* and 0 when scores is empty.
C6_FinalScoreIsFloorMean ==
    final_score = IF scores # <<>> THEN SumOverall(scores) \div Len(scores) ELSE 0

\* where calls[k] stands in the candidate list
CandidateIndex(m) == CHOOSE j \in 1..Len(check_models) : check_models[j] = m

\* the calls made so far go through the candidates in list order, one
\* candidate at a time, the standard call first and at most one reduced call
CallsInListOrder ==
    /\ \A k \in 1..Len(calls) :
          \E j \in 1..Len(check_models) : check_models[j] = calls[k].model
    /\ calls # <<>> => calls[1] = Call(check_models[1], "standard")
    /\ \A k \in 1..(Len(calls) - 1) :
          \/ /\ calls[k + 1].model = calls[k].model
             /\ calls[k].shape = "standard"
             /\ calls[k + 1].shape = "reduced"
          \/ /\ CandidateIndex(calls[k + 1].model) = CandidateIndex(calls[k].model) + 1
             /\ calls[k + 1].shape = "standard"

\* the candidate that answered is the last one called and the reported winner
WinnerIsLastCalled ==
    (pc # "idle" /\ response.present) =>
        /\ pc = "done"
        /\ response.model = calls[Len(calls)].model
        /\ model_to_use = response.model

\* C7: candidates are called in list order, one at a time; the first one that
\* yields a response, by its standard or its reduced call, is the winner and
\* no call is made after it.
C7_FirstResponseWins ==
    /\ [](CallsInListOrder /\ WinnerIsLastCalled)
    /\ [][ (response.present /\ pc # "idle") => calls' = calls ]_vars

\* [A, B, C, ...]: A fails otherwise, B fails on the parameter shape and
\* answers the reduced call
C7_Witness ==
    /\ pc = "done"
    /\ calls = << Call(check_models[1], "standard"),
                  Call(check_models[2], "standard"),
                  Call(check_models[2], "reduced") >>
    /\ response.present
    /\ model_to_use = check_models[2]
    /\ error_log = <<LogEntry(check_models[1], ErrNotFound)>>

\* the records a scoring call can yield
ScoreRecords == {RubricRecord(s) : s \in RubricScores} \cup {GetEmptyAnalysis}

\* C8: with the question counter at 8, non-abusive text and elapsed time at
\* most 890 get the closing-only call and the scoring call, no standard
\* generation request, terminate, phase TERMINATED and a score record; the
\* counter and the turn history stay as they are.
C8_ClosingTurn ==
    [][ (/\ HandleStep
         /\ question_count >= CurriculumLength
         /\ brain_result'.user_input \notin AbusiveTexts
         /\ brain_result'.elapsed <= HardTimeLimit) =>
            /\ brain_result'.closing_call
            /\ brain_result'.scoring_call
            /\ request' = <<>>
            /\ brain_result'.result.terminate
            /\ brain_result'.result.phase = "TERMINATED"
            /\ brain_result'.result.analysis \in ScoreRecords
            /\ scores' = Append(scores, brain_result'.result.analysis)
            /\ question_count' = question_count
            /\ conversation_history' = conversation_history ]_vars

C8_Witness ==
    /\ Handled
    /\ brain_result.closing_call
    /\ question_count = CurriculumLength
    /\ Len(conversation_history) = 2 * CurriculumLength
    /\ brain_result.result.terminate

\* C9 as stated: the fourth element run_interview_turn returns is true exactly
\* when handle_user_input returned terminate = true for the turn.
C9_FlagIsTerminate ==
    lastOp = "run_turn" =>
        (turn_result.flag <=> (Handled /\ brain_result.result.terminate))

\* C9 amended: the fourth element run_interview_turn returns is false for every
\* turn; a turn whose handle_user_input result has terminate = true leaves the
\* session phase TERMINATED instead.
C9_FlagAlwaysFalse ==
    lastOp = "run_turn" =>
        /\ turn_result.flag = FALSE
        /\ (Handled /\ brain_result.result.terminate) => phase = "TERMINATED"

C9_Witness ==
    /\ Handled
    /\ brain_result.result.terminate
    /\ turn_result.flag = FALSE
    /\ phase = "TERMINATED"

\* C10: start_interview leaves an empty transcript, no scores, phase ACTIVE and
\* the current time as start time, and the elapsed time of a turn is the time
\* since that start.
C10_StartResets ==
    /\ [][ lastOp' = "start_interview" =>
              /\ transcript' = <<>>
              /\ scores' = <<>>
              /\ phase' = "ACTIVE"
              /\ start_time' = now ]_vars
    /\ []((Handled /\ start_time # NoTime) => brain_result.elapsed = now - start_time)

\* a second start, later than the first, and a turn after it
C10_Witness ==
    /\ Handled
    /\ start_time > Epoch
    /\ turns >= 2
    /\ Len(transcript) = 2
    /\ brain_result.elapsed = now - start_time

\* C11: once a handle_user_input result has phase TERMINATED and the session
\* phase is TERMINATED, a later run_interview_turn call of the same session
\* leaves the session phase TERMINATED and, when it gets a result from
\* handle_user_input, that result has phase TERMINATED too.
C11_TerminatedAbsorbing ==
    [][ (/\ brain_result.called
         /\ ~brain_result.raised
         /\ brain_result.result.phase = "TERMINATED"
         /\ phase = "TERMINATED"
         /\ turns' = turns + 1) =>
            /\ phase' = "TERMINATED"
            /\ HandleStep => brain_result'.result.phase = "TERMINATED" ]_vars

SilentAudio == {"none", "too_short", "unintelligible"}

\* C13: a run_interview_turn call whose transcription is empty returns the
\* fixed "didn't catch that" text with no user text and no audio, does not call
\* handle_user_input, and leaves the transcript, scores, final_score, session
\* phase, strike count, question count and turn history as they were.
C13_EmptyTranscriptShortCircuit ==
    [][ (turns' = turns + 1 /\ turn_inputs'.audio_input.kind \in SilentAudio) =>
            /\ turn_result'.ai_text = DidntCatchMessage
            /\ turn_result'.user_text = <<>>
            /\ turn_result'.ai_audio = "None"
            /\ ~brain_result'.called
            /\ request' = <<>>
            /\ UNCHANGED <<transcript, scores, final_score, phase, strike_count,
                           question_count, conversation_history>> ]_vars

\* an empty transcription in a session that has a transcript, a score and a strike
C13_Witness ==
    /\ lastOp = "run_turn"
    /\ turn_inputs.audio_input.kind = "unintelligible"
    /\ turn_result.ai_text = DidntCatchMessage
    /\ ~brain_result.called
    /\ Len(transcript) = 2
    /\ scores # <<>>
    /\ strike_count = 1

\* C14: a run_interview_turn call whose speech-to-text request fails with an
\* error of the service returns the fixed "trouble hearing you" text, and does
\* not call handle_user_input.
C14_TroubleHearingOnFailure ==
    (lastOp = "run_turn" /\ turn_inputs.audio_input.kind = "service_error") =>
        /\ turn_result.ai_text = TroubleHearingMessage
        /\ turn_result.ai_text # DidntCatchMessage
        /\ ~brain_result.called

\* C15: when handle_user_input raises, run_interview_turn stores the text of
\* the exception in last_error, returns the fixed technical-issue text with no
\* audio, and appends nothing to the transcript or the scores.
C15_BrainExceptionContained ==
    [][ (turns' = turns + 1 /\ brain_result'.called /\ brain_result'.raised) =>
            /\ last_error' = <<"[Brain Error]">> \o brain_result'.error
            /\ brain_result'.error # <<>>
            /\ turn_result'.ai_text = TechnicalIssueMessage
            /\ turn_result'.ai_audio = "None"
            /\ transcript' = transcript
            /\ scores' = scores ]_vars

C15_Witness ==
    /\ lastOp = "run_turn"
    /\ brain_result.called
    /\ brain_result.raised
    /\ turn_result.ai_text = TechnicalIssueMessage
    /\ last_error = <<"[Brain Error]">> \o ErrNotSerializable
    /\ Len(transcript) = 2

\* C16: a run_interview_turn call that got a result from handle_user_input
\* returns the interviewer text, appends the two turns and the score record,
\* recomputes final_score and sets the phase, whatever speech synthesis did;
\* when synthesis failed the returned audio is None.
C16_SpeechFailureKeepsTurn ==
    [][ HandleStep =>
            /\ turn_result'.ai_text = brain_result'.result.spoken_response
            /\ turn_inputs'.tts # "ok" => turn_result'.ai_audio = "None"
            /\ Len(transcript') = Len(transcript) + 2
            /\ transcript'[Len(transcript')].text = brain_result'.result.spoken_response
            /\ scores' = Append(scores, brain_result'.result.analysis)
            /\ final_score' = SumOverall(scores') \div Len(scores')
            /\ phase' = IF brain_result'.result.terminate
                        THEN "TERMINATED" ELSE brain_result'.result.phase ]_vars

C16_Witness ==
    /\ Handled
    /\ turn_inputs.tts = "error"
    /\ turn_result.ai_audio = "None"
    /\ turn_result.ai_text = QuestionText
    /\ Len(transcript) = 4
    /\ Len(scores) = 2
    /\ phase = "QUESTIONS"

\* t starts with s
IsPrefix(s, t) == Len(s) <= Len(t) /\ SubSeq(t, 1, Len(s)) = s

\* C17: a run_interview_turn call that got a result from handle_user_input
\* appends exactly the candidate turn and then the interviewer turn to the
\* transcript; every step other than start_interview keeps the transcript it
\* found as a prefix.
C17_TranscriptAppendOnly ==
    [][ /\ HandleStep =>
              transcript' = transcript \o
                  << [role |-> "user", text |-> brain_result'.user_input,
                      timestamp |-> brain_result'.elapsed],
                     [role |-> "ai", text |-> brain_result'.result.spoken_response,
                      timestamp |-> brain_result'.elapsed] >>
        /\ lastOp' # "start_interview" => IsPrefix(transcript, transcript') ]_vars

C17_Witness ==
    /\ Handled
    /\ Len(transcript) = 6
    /\ \A i \in 1..Len(transcript) :
          transcript[i].role = IF i % 2 = 1 THEN "user" ELSE "ai"
    /\ transcript[1].timestamp < transcript[6].timestamp

\* C18: after a run_interview_turn call that got a result from
\* handle_user_input, the session phase is TERMINATED when the result has
\* terminate = true, and the phase of the result otherwise.
C18_PhaseFollowsResult ==
    Handled =>
        IF brain_result.result.terminate
        THEN phase = "TERMINATED"
        ELSE phase = brain_result.result.phase

\* the early-closing heuristic ended the interview
C18_Witness ==
    /\ Handled
    /\ brain_result.branch = "standard"
    /\ brain_result.result.terminate
    /\ phase = "TERMINATED"
    /\ question_count = 2

\* the scoring call came back with an error or with no content
ScoringFailures == {"error", "empty"}

\* C19: in a turn whose scoring call fails, handle_user_input returns the
\* record with depth, thinking and fit scores 3 and overall score 60, and the
\* spoken response, the termination decision and the question counter are
\* those of the same turn with a scoring call that succeeds.
C19_ScoringFailureDefault ==
    [][ (/\ HandleStep
         /\ brain_result'.scoring_call
         /\ turn_inputs'.ana.kind \in ScoringFailures) =>
            /\ brain_result'.result.analysis.depth_score = 3
            /\ brain_result'.result.analysis.thinking_score = 3
            /\ brain_result'.result.analysis.fit_score = 3
            /\ brain_result'.result.analysis.overall_score = 60
            /\ LET scored == HandleUserInput(Brain, Config, brain_result'.user_input,
                                             brain_result'.elapsed, turn_inputs'.svc,
                                             turn_inputs'.text,
                                             [kind |-> "json", overall |-> 85])
               IN  /\ brain_result'.result.spoken_response = scored.result.spoken_response
                   /\ brain_result'.result.terminate = scored.result.terminate
                   /\ question_count' = scored.brain.question_count ]_vars

C19_Witness ==
    /\ Handled
    /\ brain_result.branch = "standard"
    /\ turn_inputs.ana.kind = "error"
    /\ brain_result.result.analysis.overall_score = 60
    /\ brain_result.result.spoken_response = QuestionText
    /\ question_count = 2
    /\ final_score = 72

\* C20: a standard turn whose generation got no response returns the fixed
\* apology with terminate = false and leaves the question counter and the turn
\* history as they were; the generation request of the next turn carries the
\* topic directive of the failed one.
C20_GenerationFailure ==
    /\ [][ (/\ HandleStep
             /\ brain_result'.branch = "standard"
             /\ ~invocation'.response.present) =>
                /\ brain_result'.result.spoken_response = ApologyMessage
                /\ ~brain_result'.result.terminate
                /\ question_count' = question_count
                /\ conversation_history' = conversation_history ]_vars
    /\ [][ (/\ request # <<>>
             /\ ~invocation.response.present
             /\ turns' = turns + 1
             /\ request' # <<>>) =>
                DirectiveOf(request') = DirectiveOf(request) ]_vars

\* the turn after a failed generation, answered, with the directive of the
\* second slot both times
C20_Witness ==
    /\ Handled
    /\ turns = 3
    /\ invocation.response.present
    /\ last_error = <<"[Brain Internal]">> \o AllFailedError(SvcDownLog)
    /\ question_count = 2
    /\ asked = <<Instruction(0), Instruction(1)>>
    /\ Len(transcript) = 6
    /\ transcript[4].text = ApologyMessage

\* the last run_interview_turn call ran a standard turn whose generation used
\* up every candidate
Exhausted ==
    /\ Handled
    /\ brain_result.branch = "standard"
    /\ ~invocation.response.present

\* C21: after a turn in which every model candidate failed, the text returned
\* is the fixed apology and nothing else, the score record of the turn is the
\* neutral default record, and last_error holds the detail of the failures.
C21_ExhaustionRecovered ==
    Exhausted =>
        /\ brain_result.result.spoken_response = ApologyMessage
        /\ turn_result.ai_text = ApologyMessage
        /\ brain_result.result.analysis = GetEmptyAnalysis
        /\ scores[Len(scores)] = GetEmptyAnalysis
        /\ last_error = <<"[Brain Internal]">> \o AllFailedError(invocation.error_log)

\* C22: every record in scores was made by the scoring call (the rubric
\* result or the neutral default) and carries an overall_score; a turn that
\* gets a result from handle_user_input appends one record, and within a
\* session no record is changed or removed.
C22_ScoresFromScoringCall ==
    /\ [](\A i \in 1..Len(scores) :
              /\ scores[i] \in ScoreRecords
              /\ "overall_score" \in DOMAIN scores[i])
    /\ [][ /\ HandleStep => Len(scores') = Len(scores) + 1
           /\ lastOp' # "start_interview" => IsPrefix(scores, scores') ]_vars

\* the job-context block of a generation request
JobContextBlocks(messages) ==
    SelectSeq(messages,
              LAMBDA m : m.role = "system"
                         /\ m.content[1] = "[DOMAIN KNOWLEDGE / JOB CONTEXT]")

PhaseRank(ph) ==
    CASE ph = "OPENING" -> 1 [] ph = "QUESTIONS" -> 2 [] ph = "CLOSING" -> 3
      [] ph = "TERMINATED" -> 4 [] OTHER -> 0

\* C24: the brain starts in OPENING, and over the handle_user_input calls of
\* a session neither its interview_phase nor the phase it returns, WARNING
\* aside, moves back in the order OPENING, QUESTIONS, CLOSING, TERMINATED.
C24_PhaseNeverMovesBack ==
    /\ [](turns = 0 => interview_phase = "OPENING")
    /\ [][ PhaseRank(interview_phase') >= PhaseRank(interview_phase) ]_vars
    /\ [][ (/\ brain_result.called
             /\ ~brain_result.raised
             /\ brain_result.result.phase # "WARNING"
             /\ HandleStep
             /\ brain_result'.result.phase # "WARNING") =>
                PhaseRank(brain_result'.result.phase)
                    >= PhaseRank(brain_result.result.phase) ]_vars

\* C25: a standard turn that does not terminate returns OPENING when the
\* question count it leaves is 1, QUESTIONS when it is 2 to 7, CLOSING when it
\* is 8; the turn that brings the count to 8 is a standard turn, so CLOSING is
\* returned before the call that finds the curriculum exhausted.
C25_PhaseByCount ==
    [][ (/\ HandleStep
         /\ brain_result'.branch = "standard"
         /\ ~brain_result'.result.terminate
         /\ question_count' >= 1) =>
            /\ question_count' <= CurriculumLength
            /\ brain_result'.result.phase =
                   CASE question_count' = 1 -> "OPENING"
                     [] question_count' \in 2..7 -> "QUESTIONS"
                     [] question_count' = 8 -> "CLOSING"
            /\ question_count' = 8 =>
                   (question_count = 7 /\ invocation'.response.present) ]_vars

C25_Witness ==
    /\ Handled
    /\ brain_result.branch = "standard"
    /\ question_count = CurriculumLength
    /\ brain_result.result.phase = "CLOSING"
    /\ ~brain_result.result.terminate
    /\ phase = "CLOSING"

\* one of "thank you", "goodbye", "hear back" is in the text, in any case
HasClosingPhrase(spoken) ==
    \E ph \in {<<"thank", "you">>, <<"goodbye">>, <<"hear", "back">>} :
        \E i \in 1..Len(spoken) :
            /\ i + Len(ph) - 1 <= Len(spoken)
            /\ \A k \in 1..Len(ph) : Lower(spoken[i + k - 1]) = ph[k]

\* C26: a standard turn returns terminate = true, and phase TERMINATED,
\* exactly when the elapsed time is over 600 and the response has one of the
\* closing phrases; at 600 or less a response with a closing phrase does not
\* terminate.
C26_EarlyClosing ==
    [][ (HandleStep /\ brain_result'.branch = "standard") =>
            /\ brain_result'.result.terminate <=>
                   (/\ brain_result'.elapsed > 600
                    /\ HasClosingPhrase(brain_result'.result.spoken_response))
            /\ brain_result'.result.terminate <=>
                   brain_result'.result.phase = "TERMINATED"
            /\ (/\ invocation'.response.present
                /\ turn_inputs'.text \in {FarewellText, HearBackText})
                   => HasClosingPhrase(brain_result'.result.spoken_response) ]_vars

\* "hear back" after ten minutes, with questions left
C26_Witness ==
    /\ Handled
    /\ brain_result.branch = "standard"
    /\ brain_result.elapsed = 650
    /\ brain_result.result.spoken_response = HearBackText
    /\ brain_result.result.terminate
    /\ brain_result.result.phase = "TERMINATED"
    /\ question_count = 2

\* the time-pressure directives of a generation request
TimeDirectives(messages) ==
    SelectSeq(messages,
              LAMBDA m : m.role = "system"
                         /\ m.content[1] \in {"[CRITICAL TIME WARNING]", "[TIME CHECK]"})

\* C27: a generation request carries the final-question directive when the
\* elapsed time is over 780, the begin-concluding directive when it is over
\* 600 and at most 780, and no time directive at 600 or less; never two.
C27_TimeDirective ==
    [][ (turns' = turns + 1 /\ request' # <<>>) =>
            /\ Len(TimeDirectives(request')) <= 1
            /\ brain_result'.elapsed > 780 =>
                   TimeDirectives(request') =
                       <<Message("system", <<"[CRITICAL TIME WARNING]">>)>>
            /\ (brain_result'.elapsed > 600 /\ brain_result'.elapsed <= 780) =>
                   TimeDirectives(request') =
                       <<Message("system", <<"[TIME CHECK]">>)>>
            /\ brain_result'.elapsed <= 600 => TimeDirectives(request') = <<>> ]_vars

C27_Witness ==
    /\ Handled
    /\ brain_result.elapsed = 800
    /\ TimeDirectives(request) = <<Message("system", <<"[CRITICAL TIME WARNING]">>)>>
    /\ Len(conversation_history) = 4

\* C28: a generation request is the persona prompt, then the personalization
\* brief if there is one, the job context if one is set, the time directive
\* if one applies, then the turn history as it was before the turn, then the
\* topic directive of the question count, and last the candidate's text.
C28_RequestOrder ==
    [][ (turns' = turns + 1 /\ request' # <<>>) =>
          request' =
            <<[role |-> "system", content |-> <<"[PERSONA]">>]>>
            \o (IF interview_strategy # <<>>
                THEN <<[role |-> "system",
                        content |-> <<"[EXPERT PROFILE & STRATEGY]">>
                                        \o interview_strategy]>>
                ELSE <<>>)
            \o JobContextBlocks(request')
            \o TimeDirectives(request')
            \o conversation_history
            \o <<[role |-> "system", content |-> Instruction(question_count)]>>
            \o <<[role |-> "user", content |-> brain_result'.user_input]>> ]_vars

\* a request with a brief, a time directive and two turns of history
C28_Witness ==
    /\ Handled
    /\ Len(request) = 7
    /\ request[2].content[1] = "[EXPERT PROFILE & STRATEGY]"
    /\ request[3].content[1] = "[TIME CHECK]"
    /\ request[4].role = "user"
    /\ request[5].role = "assistant"
    /\ request[6].content = Instruction(1)
    /\ request[7] = [role |-> "user", content |-> CleanText]

\* C29: the candidate list of an invocation starts with the preferred model,
\* then has the fallback models other than the preferred one in the order of
\* fallback_models; every fallback model is in it once, and no name twice.
C29_CandidateList ==
    pc # "idle" =>
        /\ check_models[1] = (IF provider = "openai" THEN "gpt-4o-mini"
                              ELSE deployment_name)
        /\ \A i, j \in 1..Len(check_models) :
              check_models[i] = check_models[j] => i = j
        /\ \A k \in 1..Len(fallback_models) :
              \E i \in 1..Len(check_models) : check_models[i] = fallback_models[k]
        /\ \A i, j \in 2..Len(check_models) :
              i < j =>
                \E k, l \in 1..Len(fallback_models) :
                    /\ k < l
                    /\ fallback_models[k] = check_models[i]
                    /\ fallback_models[l] = check_models[j]

\* the preferred model is the last of the fallback models
C29_Witness ==
    /\ pc = "loop"
    /\ deployment_name = "gpt-35-turbo"
    /\ check_models[1] = "gpt-35-turbo"
    /\ Len(check_models) = Len(fallback_models)
    /\ check_models[2] = fallback_models[1]

\* C30: the scoring call yields the neutral default record for a failed
\* request only when every candidate of the resilient invocation would have
\* failed, as the generation call does.
C30_ScoringUsesFallback ==
    [][ (/\ HandleStep
         /\ brain_result'.scoring_call
         /\ turn_inputs'.ana.kind = "error"
         /\ brain_result'.result.analysis = GetEmptyAnalysis) =>
            ~Invoke(provider, deployment_name, turn_inputs'.svc,
                    turn_inputs'.text).response.present ]_vars

\* the error text, case folded, has one of the three marks of a rejected
\* parameter
MentionsParameterShape(e) ==
    \E w \in {"unsupported", "parameter", "max_tokens"} :
        \E i \in 1..Len(e) : Lower(e[i]) = w

\* how many calls of a shape a candidate got
CallCount(m, shape) ==
    Cardinality({k \in 1..Len(calls) : calls[k] = Call(m, shape)})

\* the candidates before idx, and the winner, got the standard call once, the
\* others none; no candidate got the reduced call twice or without the
\* standard one
CallsPerCandidate ==
    pc # "idle" =>
        \A i \in 1..Len(check_models) :
            /\ CallCount(check_models[i], "standard") =
                   (IF i < idx \/ (i = idx /\ response.present) THEN 1 ELSE 0)
            /\ CallCount(check_models[i], "reduced")
                   <= CallCount(check_models[i], "standard")

\* the calls of the pass just made
PassCalls == SubSeq(calls', Len(calls) + 1, Len(calls'))

C32_ErrorLogPerCandidate ==
    /\ []((pc = "done" /\ ~response.present) =>
            /\ Len(error_log) = Len(check_models)
            /\ \A i \in 1..Len(check_models) :
                  /\ error_log[i][1] = check_models[i]
                  /\ error_log[i][2] = ":")
    /\ [][ (pc = "loop" /\ calls' # calls) =>
              IF response'.present
              THEN error_log' = error_log
              ELSE error_log' =
                     Append(error_log,
                            <<check_models[idx], ":">> \o
                               (IF Len(PassCalls) = 2 THEN behaviour'.reduced.err
                                ELSE behaviour'.std.err)) ]_vars

\* every candidate failed, the first on its retry
C32_Witness ==
    /\ pc = "done"
    /\ ~response.present
    /\ Len(error_log) = Len(check_models)
    /\ error_log[1] = <<check_models[1], ":">> \o ErrRateLimit
    /\ error_log[2] = <<check_models[2], ":">> \o ErrNotFound
    /\ Len(calls) = Len(check_models) + 1

\* C33: an invocation leaves the preferred model and the provider as they
\* were, whichever candidate won or failed; the next invocation starts again
\* with the preferred model and goes through the same candidate list.
C33_InvocationKeepsNoState ==
    /\ [][ deployment_name' = deployment_name /\ provider' = provider ]_vars
    /\ [][ (pc = "idle" /\ pc' = "loop") =>
              /\ check_models'[1] = (IF provider = "openai" THEN "gpt-4o-mini"
                                     ELSE deployment_name)
              /\ model_to_use' = check_models'[1]
              /\ idx' = 1
              /\ check_models # <<>> => check_models' = check_models ]_vars
    /\ [][ pc # "idle" => check_models' = check_models ]_vars

\* an invocation started after one that a fallback model had won
C33_Witness ==
    /\ pc = "loop"
    /\ idx = 1
    /\ calls = <<>>
    /\ previous_invocation.made
    /\ previous_invocation.won
    /\ previous_invocation.winner # check_models[1]
    /\ model_to_use = check_models[1]
    /\ check_models[1] = deployment_name

\* C34: a turn with abusive text, and a turn with other text past the hard
\* time limit, make no generation call and no scoring call and leave the turn
\* history and the question counter as they are; the abuse turn changes the
\* strike counter and nothing else of the brain, the time-limit turn nothing.
C34_EarlyTurnsFrame ==
    [][ (/\ HandleStep
         /\ \/ brain_result'.user_input \in AbusiveTexts
            \/ brain_result'.elapsed > HardTimeLimit) =>
            /\ request' = <<>>
            /\ invocation' = NoInvocation
            /\ ~brain_result'.closing_call
            /\ ~brain_result'.scoring_call
            /\ conversation_history' = conversation_history
            /\ question_count' = question_count
            /\ UNCHANGED <<interview_phase, brain_last_error, job_context>>
            /\ strike_count' =
                  (IF brain_result'.user_input \in AbusiveTexts
                   THEN strike_count + 1 ELSE strike_count) ]_vars

\* the second strike, after one answered question
C34_Witness ==
    /\ Handled
    /\ brain_result.user_input \in AbusiveTexts
    /\ brain_result.branch = "abuse"
    /\ strike_count = 2
    /\ question_count = 1
    /\ Len(conversation_history) = 2
    /\ request = <<>>
    /\ ~brain_result.scoring_call

\* C35: the question counter is always between 0 and 8; no generation
\* request carries the directive that stands for a counter of 8 or more; a
\* standard turn is only made with the counter below 8.
C35_CounterWithinCurriculum ==
    /\ [](/\ question_count \in 0..CurriculumLength
          /\ request # <<>> =>
                /\ DirectiveOf(request) # Instruction(CurriculumLength)
                /\ \E n \in 0..(CurriculumLength - 1) :
                      DirectiveOf(request) = Instruction(n))
    /\ [][ (HandleStep /\ brain_result'.branch = "standard") =>
              question_count < CurriculumLength ]_vars

\* the eighth question has just been generated, from the last directive of
\* the curriculum
C35_Witness ==
    /\ Handled
    /\ brain_result.branch = "standard"
    /\ invocation.response.present
    /\ question_count = CurriculumLength
    /\ DirectiveOf(request) = Instruction(CurriculumLength - 1)
    /\ Len(asked) = CurriculumLength

\* the history is made of pairs, the candidate's answer then the
\* interviewer's reply, one pair per counted question
HistoryInPairs ==
    /\ Len(conversation_history) = 2 * question_count
    /\ \A i \in 1..Len(conversation_history) :
          conversation_history[i].role =
              (IF i % 2 = 1 THEN "user" ELSE "assistant")

\* C36: the turn history has 2 x question counter entries, the candidate's
\* and the interviewer's in turn; a pair is appended, with the counter going
\* up by one, only by a standard turn whose generation got a response, and
\* no entry is ever removed or rewritten.
C36_HistoryPairs ==
    /\ []HistoryInPairs
    /\ [][ \/ /\ conversation_history' = conversation_history
              /\ question_count' = question_count
           \/ /\ HandleStep
              /\ brain_result'.branch = "standard"
              /\ invocation'.response.present
              /\ question_count' = question_count + 1
              /\ conversation_history' =
                    conversation_history \o
                       <<Message("user", brain_result'.user_input),
                         Message("assistant", invocation'.response.content)>> ]_vars

\* a standard turn whose generation failed, after two answered questions
C36_Witness ==
    /\ Handled
    /\ brain_result.branch = "standard"
    /\ ~invocation.response.present
    /\ question_count = 2
    /\ Len(conversation_history) = 4
    /\ conversation_history[3].role = "user"
    /\ conversation_history[4].role = "assistant"

\* C37: start_interview sets the start time, the session phase, the
\* transcript and the scores, and nothing else: the brain's strike count,
\* question count, phase and history, and the orchestrator's final score and
\* last error, are as they were.
C37_StartInterviewFrame ==
    [][ lastOp' = "start_interview" =>
            /\ start_time' = now
            /\ phase' = "ACTIVE"
            /\ transcript' = <<>>
            /\ scores' = <<>>
            /\ UNCHANGED <<strike_count, question_count, interview_phase,
                           conversation_history>>
            /\ UNCHANGED <<final_score, last_error>>
            /\ UNCHANGED <<brain_last_error, job_context, cfgVars>> ]_vars

\* a session started again after an answered question and a first strike
C37_Witness ==
    /\ lastOp = "start_interview"
    /\ transcript = <<>>
    /\ scores = <<>>
    /\ question_count = 1
    /\ Len(conversation_history) = 2
    /\ strike_count = 1
    /\ final_score > 0

\* no input so far was abusive, and no turn so far failed to generate
NothingWentWrong == strike_count = 0 /\ last_error = <<>>

\* C38: in a session where every generation call got a response and no input
\* was abusive, terminate = true is returned by the ninth handle_user_input
\* call at the latest; and in any session a handle_user_input call with
\* non-abusive text and elapsed time over 890 returns terminate = true.
C38_InterviewEnds ==
    /\ [](NothingWentWrong =>
            /\ first_terminate = 0 => (handled = question_count
                                       /\ handled <= CurriculumLength)
            /\ handled >= CurriculumLength + 1 =>
                  first_terminate \in 1..(CurriculumLength + 1))
    /\ [][ (/\ turns' = turns + 1
            /\ brain_result'.called
            /\ brain_result'.user_input \notin AbusiveTexts
            /\ brain_result'.elapsed > HardTimeLimit) =>
              /\ ~brain_result'.raised
              /\ brain_result'.result.terminate ]_vars

\* eight questions generated, the ninth call is the first to terminate
C38_Witness ==
    /\ Handled
    /\ NothingWentWrong
    /\ handled = CurriculumLength + 1
    /\ first_terminate = CurriculumLength + 1
    /\ brain_result.elapsed <= HardTimeLimit
    /\ brain_result.result.terminate

\* C39: a closing turn (counter at 8, non-abusive text, elapsed time at most
\* 890) whose closing-only call fails and whose scoring call fails too raises
\* nothing and returns the fixed closing message, which is not empty, the
\* neutral default record, terminate = true and phase TERMINATED.
C39_ClosingCannotFail ==
    [][ (/\ turns' = turns + 1
         /\ brain_result'.called
         /\ question_count >= CurriculumLength
         /\ brain_result'.user_input \notin AbusiveTexts
         /\ brain_result'.elapsed <= HardTimeLimit
         /\ ~turn_inputs'.svc["gpt-4o-mini"].std.ok
         /\ turn_inputs'.ana.kind \in ScoringFailures) =>
            /\ ~brain_result'.raised
            /\ brain_result'.result.spoken_response = FallbackClosingMessage
            /\ brain_result'.result.spoken_response # <<>>
            /\ brain_result'.result.analysis = GetEmptyAnalysis
            /\ brain_result'.result.analysis.overall_score = DefaultOverall
            /\ brain_result'.result.terminate
            /\ brain_result'.result.phase = "TERMINATED" ]_vars

\* the closing turn with the text service down and the scoring call raising
C39_Witness ==
    /\ Handled
    /\ brain_result.branch = "closing"
    /\ turn_inputs.svc = SvcDown
    /\ turn_inputs.ana.kind = "error"
    /\ brain_result.result.spoken_response = FallbackClosingMessage
    /\ brain_result.result.analysis = GetEmptyAnalysis
    /\ brain_result.result.terminate

====
